---- MODULE Spec2Model ----
(***************************************************************************)
(* A model of the persistence layer of clean-arch-rust: the entities       *)
(* (domain/entities.rs), the use cases (domain/mod.rs) and the three       *)
(* Repository implementations of data/mod.rs: TrivialRepository (a Vec),   *)
(* HashRepository (a HashMap keyed by a random Uuid) and Rusqlite (an      *)
(* SQLite connection with a users and a tasks table).                      *)
(*                                                                         *)
(* One behaviour follows one store instance: Init picks the backend and,   *)
(* for the generic in-memory stores, the element type T.                   *)
(*                                                                         *)
(* Option<T> is a sequence of length 0 (None) or 1 (Some).  Names and      *)
(* descriptions are atomic strings; a tag is a sequence of characters,     *)
(* because bind joins the tags with "," and from_row splits them again.    *)
(***************************************************************************)
EXTENDS Integers, Sequences, FiniteSets, TLC

\* ---------------------------------------------------------------- bounds

\* The number of successful save calls on the store instance.
MaxSaves == 2

\* The number of tasks a User value handed to save carries.
MaxTasks == 2

\* ---------------------------------------------------------------- values

None == <<>>

Some(x) == <<x>>

Min(a, b) == IF a < b THEN a ELSE b

\* The first n elements of s (all of s when it is shorter).
Take(s, n) == SubSeq(s, 1, Min(n, Len(s)))

\* The set of elements of s.
Range(s) == {s[i] : i \in 1..Len(s)}

\* All sequences over S of length at most n.
SeqsUpTo(S, n) == UNION {[1..k -> S] : k \in 0..n}

\* ------------------------------------------------- domain/entities.rs

\* struct Task { desc, tags, due, done }
Task(desc, tags, due, done) ==
    [desc |-> desc, tags |-> tags, due |-> due, done |-> done]

\* Task::new
TaskNew(description) == Task(description, <<>>, None, FALSE)

\* Task::finish
finish(t) == [t EXCEPT !.done = TRUE]

\* Task::is_done
is_done(t) == t.done

\* Task::due (the builder that sets the due time)
due(t, when) == [t EXCEPT !.due = Some(when)]

\* User::with_tasks
with_tasks(name, ts) == [name |-> name, tasks |-> ts]

\* User::new
UserNew(name) == with_tasks(name, <<>>)

\* User::add_task
add_task(u, t) == [u EXCEPT !.tasks = Append(@, t)]

\* User::tasks
tasks(u) == u.tasks

\* UserSearchTerms::Name(name)
NameTerm(name) == [term |-> "Name", value |-> name]

\* ------------------------------------------------------ the input values

Names == {"A", "C"}

\* The tasks a User owns in the inputs: Task::new, finished or not, as in
\* the tests.  The in-memory stores see two finished tasks that differ and
\* an unfinished one, the relational store one task value (as its test
\* does), here a finished one.
MemOwnedTasks == {finish(TaskNew("One")), finish(TaskNew("Two")), TaskNew("Tre")}

SqlOwnedTasks == {finish(TaskNew("One"))}

\* The tasks saved on their own: a fresh one, a finished one, one with two
\* tags, one with a due time.
Tasks ==
    {TaskNew("Tre"), finish(TaskNew("One")),
     Task("Tag", << <<"x">>, <<"y">> >>, None, FALSE),
     due(TaskNew("Due"), 1)}

\* The users with a name of names that own at most MaxTasks tasks of pool.
UsersOver(names, pool) ==
    {with_tasks(n, ts) : n \in names, ts \in SeqsUpTo(pool, MaxTasks)}

\* The in-memory stores never look at a name: one name is enough there.
MemUsers == UsersOver({"A"}, MemOwnedTasks)

SqlUsers == UsersOver(Names, SqlOwnedTasks)

\* The values of type T handed to save on backend b.
Values(b, T) ==
    IF T = "User" THEN (IF b = "sql" THEN SqlUsers ELSE MemUsers) ELSE Tasks

\* ------------------------------------------------- domain/mod.rs usecases

\* find_all_done with the filter inverted (a dropped negation).
find_all_done_inverted(user) == SelectSeq(tasks(user), LAMBDA t : ~is_done(t))

\* find_all_done: user.tasks().iter().filter(|t| t.is_done()).cloned().collect()
find_all_done(user) == SelectSeq(tasks(user), is_done)

\* ------------------------------------------------ data/mod.rs: SQL mapping

\* One token of a statement text.  f carries a table or column name, n the
\* number of a LIMIT clause.
Tok(k, f, n) == [k |-> k, f |-> f, n |-> n]

\* The table an entity type is mapped to (the FROM / INTO of its statements).
TableOf(T) == IF T = "User" THEN "users" ELSE "tasks"

\* SQLable::select: "SELECT * FROM users" / "SELECT * from tasks"
select(T) == Tok("SELECT", TableOf(T), 0)

\* SQLable::insert: "INSERT INTO users (name) VALUES (?)" /
\* "INSERT INTO tasks (desc, done, tags) VALUES (?, ?, ?)"
insert(T) ==
    IF T = "User"
    THEN [table |-> "users", cols |-> <<"name">>]
    ELSE [table |-> "tasks", cols |-> <<"desc", "done", "tags">>]

\* SQLable::create_table: the table and its columns, the INTEGER PRIMARY KEY
\* first.
create_table(T) ==
    IF T = "User"
    THEN [table |-> "users", cols |-> <<"id", "name">>]
    ELSE [table |-> "tasks", cols |-> <<"id", "desc", "done", "tags">>]

\* struct QueryValue(field, value)
QueryValue(field, value) == [field |-> field, value |-> value]

\* [String]::join(sep) on tags that are character sequences.
RECURSIVE Join(_, _)
Join(ts, sep) ==
    IF ts = <<>> THEN <<>>
    ELSE IF Len(ts) = 1 THEN ts[1]
    ELSE ts[1] \o <<sep>> \o Join(Tail(ts), sep)

\* str::split(sep): the pieces between the separators; the empty string
\* splits into one empty piece.
RECURSIVE Split(_, _)
Split(s, sep) ==
    LET hits == {i \in 1..Len(s) : s[i] = sep}
    IN  IF hits = {} THEN <<s>>
        ELSE LET i == CHOOSE h \in hits : \A g \in hits : h <= g
             IN  <<SubSeq(s, 1, i - 1)>> \o Split(SubSeq(s, i + 1, Len(s)), sep)

\* ------------------------------------------------ data/mod.rs: the database

\* Connection::open_in_memory: no table yet.
EmptyConn == [created |-> {}, rows |-> [users |-> <<>>, tasks |-> <<>>]]

\* The rowid SQLite gives the next row of an INTEGER PRIMARY KEY table: one
\* more than the largest in the table, 1 for an empty table.
NextRowId(rows) ==
    IF rows = <<>> THEN 1
    ELSE 1 + CHOOSE m \in {rows[i].id : i \in 1..Len(rows)} :
                 \A j \in 1..Len(rows) : rows[j].id <= m

\* setup with CREATE TABLE IF NOT EXISTS: Ok when the table exists.
setup_if_not_exists(c, T) ==
    [ok |-> TRUE, conn |-> [c EXCEPT !.created = @ \cup {create_table(T).table}]]

\* conn.execute(T::create_table(), NO_PARAMS): an Err when the table exists.
setup(c, T) ==
    LET t == create_table(T).table
    IN  IF t \in c.created
        THEN [ok |-> FALSE, conn |-> c]
        ELSE [ok |-> TRUE, conn |-> [c EXCEPT !.created = @ \cup {t}]]

\* The closure Rusqlite::save hands to bind: prepare the insert (a panic
\* when the table is missing), insert the bindings in placeholder order,
\* return the new rowid.
consumer(c, stmt, bindings) ==
    IF stmt.table \notin c.created \/ Len(bindings) # Len(stmt.cols)
    THEN [ok |-> FALSE, conn |-> c, id |-> 0]
    ELSE LET id  == NextRowId(c.rows[stmt.table])
             col == [i \in 1..Len(stmt.cols) |-> stmt.cols[i]]
             row == [f \in {"id"} \cup Range(col) |->
                       IF f = "id" THEN id
                       ELSE bindings[CHOOSE i \in 1..Len(col) : col[i] = f]]
         IN  [ok |-> TRUE,
              conn |-> [c EXCEPT !.rows[stmt.table] = Append(@, row)],
              id |-> id]

\* <Task as SQLable>::bind: an empty joined text is bound as NULL.
TaskBind(c, data) ==
    LET joined == Join(data.tags, ",")
        tags   == IF Len(joined) > 0 THEN Some(joined) ELSE None
    IN  consumer(c, insert("Task"), <<data.desc, data.done, tags>>)

\* The loop of <User as SQLable>::bind over data.tasks(); a panic in one
\* insert ends it, the rows inserted before stay.
RECURSIVE BindTasks(_, _)
BindTasks(c, ts) ==
    IF ts = <<>> THEN [ok |-> TRUE, conn |-> c]
    ELSE LET r == TaskBind(c, Head(ts))
         IN  IF r.ok THEN BindTasks(r.conn, Tail(ts))
             ELSE [ok |-> FALSE, conn |-> r.conn]

\* <User as SQLable>::bind that returns what its last insert returned.
UserBindLastId(c, data) ==
    LET mine == consumer(c, insert("User"), <<data.name>>)
    IN  IF ~mine.ok THEN mine
        ELSE LET rest == BindTasks(mine.conn, tasks(data))
             IN  [ok |-> rest.ok, conn |-> rest.conn,
                  id |-> IF tasks(data) = <<>> THEN mine.id
                         ELSE NextRowId(rest.conn.rows.tasks) - 1]

\* <User as SQLable>::bind: the users row first, then the tasks; the result
\* is the id of the users row.
UserBind(c, data) ==
    LET mine == consumer(c, insert("User"), <<data.name>>)
    IN  IF ~mine.ok THEN mine
        ELSE LET rest == BindTasks(mine.conn, tasks(data))
             IN  [ok |-> rest.ok, conn |-> rest.conn, id |-> mine.id]

\* Rusqlite::save
SqlSaveOp(c, T, data) == IF T = "User" THEN UserBind(c, data) ELSE TaskBind(c, data)

\* Rusqlite::query without its LIMIT clause.
BuildSqlNoLimit(T, parameters, limit) ==
    LET k == Len(parameters)
        clause(i) == <<Tok("EQ", parameters[i].field, 0)>>
                     \o (IF i < k THEN <<Tok("AND", "", 0)>> ELSE <<>>)
        clauses[i \in 0..k] == IF i = 0 THEN <<>> ELSE clauses[i - 1] \o clause(i)
    IN  [sql |-> <<select(T)>>
                 \o (IF k > 0 THEN <<Tok("WHERE", "", 0)>> ELSE <<>>)
                 \o clauses[k],
         params |-> [i \in 1..k |-> parameters[i].value]]

\* Rusqlite::query without the peek: an AND after every clause.
BuildSqlTrailingAnd(T, parameters, limit) ==
    LET k == Len(parameters)
        clause(i) == <<Tok("EQ", parameters[i].field, 0), Tok("AND", "", 0)>>
        clauses[i \in 0..k] == IF i = 0 THEN <<>> ELSE clauses[i - 1] \o clause(i)
    IN  [sql |-> <<select(T)>>
                 \o (IF k > 0 THEN <<Tok("WHERE", "", 0)>> ELSE <<>>)
                 \o clauses[k]
                 \o (IF limit # None THEN <<Tok("LIMIT", "", limit[1])>> ELSE <<>>),
         params |-> [i \in 1..k |-> parameters[i].value]]

\* The statement text Rusqlite::query builds, and the values it binds.
BuildSql(T, parameters, limit) ==
    LET k == Len(parameters)
        clause(i) == <<Tok("EQ", parameters[i].field, 0)>>
                     \o (IF i < k THEN <<Tok("AND", "", 0)>> ELSE <<>>)
        clauses[i \in 0..k] == IF i = 0 THEN <<>> ELSE clauses[i - 1] \o clause(i)
    IN  [sql |-> <<select(T)>>
                 \o (IF k > 0 THEN <<Tok("WHERE", "", 0)>> ELSE <<>>)
                 \o clauses[k]
                 \o (IF limit # None THEN <<Tok("LIMIT", "", limit[1])>> ELSE <<>>),
         params |-> [i \in 1..k |-> parameters[i].value]]

\* conn.prepare(sql): SELECT * FROM t [WHERE f = (?) {AND f = (?)}] [LIMIT n]
\* over an existing table and its columns; anything else is an error.
prepare(c, sql) ==
    LET n        == Len(sql)
        hasLimit == sql[n].k = "LIMIT"
        body     == SubSeq(sql, 2, IF hasLimit THEN n - 1 ELSE n)
        m        == Len(body)
        fields   == [i \in 1..(m \div 2) |-> body[2 * i].f]
        shape    == /\ sql[1].k = "SELECT"
                    /\ \/ m = 0
                       \/ /\ m % 2 = 0
                          /\ body[1].k = "WHERE"
                          /\ \A i \in 2..m :
                                body[i].k = (IF i % 2 = 0 THEN "EQ" ELSE "AND")
    IN  [ok |-> /\ shape
                /\ sql[1].f \in c.created
                /\ \A i \in 1..Len(fields) :
                      \E T \in {"User", "Task"} :
                         /\ create_table(T).table = sql[1].f
                         /\ fields[i] \in Range(create_table(T).cols),
         table |-> sql[1].f,
         fields |-> fields,
         limit |-> IF hasLimit THEN Some(sql[n].n) ELSE None]

\* The rows a prepared statement yields for the bound values: the rows of
\* the table, in rowid order, that agree with every bound value, cut at the
\* LIMIT.  Binding fails when the values do not match the placeholders.
Rows(c, stmt, params) ==
    LET match(row) == \A i \in 1..Len(stmt.fields) : row[stmt.fields[i]] = params[i]
        hit        == SelectSeq(c.rows[stmt.table], match)
    IN  [ok |-> Len(params) = Len(stmt.fields),
         rows |-> IF stmt.limit = None THEN hit ELSE Take(hit, stmt.limit[1])]

\* <Task as SQLable>::from_row: columns read by name; NULL tags give no
\* tags; due is never read back.
TaskFromRow(row) ==
    Task(row.desc,
         IF row.tags = None THEN <<>> ELSE Split(row.tags[1], ","),
         None,
         row.done)

\* Rusqlite::query::<Task>
QueryTasks(c, parameters, limit) ==
    LET built == BuildSql("Task", parameters, limit)
        stmt  == prepare(c, built.sql)
        got   == Rows(c, stmt, built.params)
    IN  IF ~stmt.ok \/ ~got.ok THEN [ok |-> FALSE, val |-> <<>>]
        ELSE [ok |-> TRUE,
              val |-> [i \in 1..Len(got.rows) |-> TaskFromRow(got.rows[i])]]

\* <User as SQLable>::from_row: columns 0 and 1 of the row, then the tasks
\* fetched with repo.query(&[QueryValue("id", &id)], None).
UserFromRow(c, row) ==
    LET cols == create_table("User").cols
        id   == row[cols[1]]
        name == row[cols[2]]
        ts   == QueryTasks(c, <<QueryValue("id", id)>>, None)
    IN  [ok |-> ts.ok, val |-> with_tasks(name, ts.val)]

\* Rusqlite::query: a panic in prepare, in binding or in one from_row is a
\* panic of the whole call.
query(c, T, parameters, limit) ==
    IF T = "Task" THEN QueryTasks(c, parameters, limit)
    ELSE LET built == BuildSql("User", parameters, limit)
             stmt  == prepare(c, built.sql)
             got   == Rows(c, stmt, built.params)
             each  == [i \in 1..Len(got.rows) |-> UserFromRow(c, got.rows[i])]
         IN  IF ~stmt.ok \/ ~got.ok \/ \E i \in 1..Len(each) : ~each[i].ok
             THEN [ok |-> FALSE, val |-> <<>>]
             ELSE [ok |-> TRUE, val |-> [i \in 1..Len(each) |-> each[i].val]]

\* get_all that asks for one row only.
get_all_first(c, T) == query(c, T, <<>>, Some(1))

\* Rusqlite::get_all
get_all(c, T) == query(c, T, <<>>, None)

\* Rusqlite::get: the first of at most one row.
SqlGetOp(c, T, id) ==
    LET result == query(c, T, <<QueryValue("id", id)>>, Some(1))
    IN  [ok |-> result.ok,
         val |-> IF result.ok /\ result.val # <<>> THEN Some(result.val[1]) ELSE None]

\* build_query that stops after the first credential.
build_query_first(creds) ==
    [i \in 1..Min(1, Len(creds)) |-> QueryValue("name", creds[i].value)]

\* <User as SQLSearchable>::build_query: one ("name", value) per credential.
build_query(creds) ==
    [i \in 1..Len(creds) |-> QueryValue("name", creds[i].value)]

\* <Rusqlite as SearchableRepository>::find
find(c, credentials, limit) == query(c, "User", build_query(credentials), limit)

\* ------------------------------------------- data/mod.rs: in-memory stores

\* TrivialRepository::all
TrivialAll(v) == v

\* TrivialRepository::get with positions counted from 1.
TrivialGetFromOne(v, id) == IF 0 < id /\ id <= Len(v) THEN Some(v[id]) ELSE None

\* TrivialRepository::get: self.0.get(*id).cloned(), positions from 0.
TrivialGet(v, id) == IF id < Len(v) THEN Some(v[id + 1]) ELSE None

\* TrivialRepository::save that reads the length after the push.
TrivialSaveLenAfter(v, data) == [store |-> Append(v, data), id |-> Len(v) + 1]

\* TrivialRepository::save: the length before the push is the identity.
TrivialSave(v, data) == [store |-> Append(v, data), id |-> Len(v)]

\* The tokens Uuid::new_v4 can draw.
Uuids == {"u1", "u2", "u3"}

\* The orders in which HashMap::values can visit the keys of h: the order
\* is unspecified, any arrangement of the keys.
HashOrders(h) ==
    LET n == Cardinality(DOMAIN h)
    IN  {s \in [1..n -> DOMAIN h] : \A i, j \in 1..n : i # j => s[i] # s[j]}

\* HashRepository::all: the values in the order o the map visits its keys.
HashAll(h, o) == [i \in 1..Len(o) |-> h[o[i]]]

\* HashRepository::get
HashGet(h, id) == IF id \in DOMAIN h THEN Some(h[id]) ELSE None

\* HashRepository::save with the token new_v4 drew: HashMap::insert puts the
\* value under the token, whatever was there.
HashSave(h, id, data) ==
    [store |-> [k \in DOMAIN h \cup {id} |-> IF k = id THEN data ELSE h[k]],
     id |-> id]

\* ------------------------------------------------------------- the state

VARIABLES
    backend,   \* which Repository this instance is: "vec", "hash" or "sql"
    elemType,  \* the T of TrivialRepository<T> / HashRepository<T>
    vec,       \* TrivialRepository.0
    hash,      \* HashRepository.0
    order,     \* the order in which HashRepository.0 visits its keys
    conn,      \* Rusqlite.conn: the tables created and their rows
    log,       \* history: the save calls that returned, with their identity
    last,      \* the most recent call, its arguments and its result
    aborted    \* a call panicked: the program is over

vars == <<backend, elemType, vec, hash, order, conn, log, last, aborted>>

store == <<vec, hash, order, conn>>

\* The limits of the search calls of the model.
MaxLimit == 1

Limits == {None} \cup {Some(n) : n \in 0..MaxLimit}

\* The credential lists of the search calls of the model.
MaxCreds == 2

CredLists == SeqsUpTo({NameTerm(n) : n \in Names}, MaxCreds)

\* The identities handed to get: every one a save can have returned, and
\* some that none has.
Ids(b, T) ==
    CASE b = "vec"  -> 0..(MaxSaves + 1)
      [] b = "hash" -> Uuids
      [] OTHER      -> 0..(MaxSaves + 1)

\* Repository::get of the instance (b, v, h, c).
RepoGet(b, v, h, c, T, id) ==
    CASE b = "vec"  -> [ok |-> TRUE, val |-> TrivialGet(v, id)]
      [] b = "hash" -> [ok |-> TRUE, val |-> HashGet(h, id)]
      [] OTHER      -> SqlGetOp(c, T, id)

Call(op, T, arg, lim, ok, ret) ==
    [op |-> op, T |-> T, arg |-> arg, lim |-> lim, ok |-> ok, ret |-> ret]

\* What log keeps of a save: the type, the value, the identity returned and
\* what get of that identity gave right after the save.
Saved(T, data, id, got) == [T |-> T, data |-> data, id |-> id, got |-> got]

\* TrivialRepository::new / HashRepository::new / Rusqlite::in_memory
Init ==
    /\ backend \in {"vec", "hash", "sql"}
    /\ elemType \in {"User", "Task"}
    /\ (backend = "sql" => elemType = "User")
    /\ vec = <<>>
    /\ hash = <<>>
    /\ order = <<>>
    /\ conn = EmptyConn
    /\ log = <<>>
    /\ last = Call("new", elemType, <<>>, None, TRUE, <<>>)
    /\ aborted = FALSE

\* ------------------------------------------------------- TrivialRepository

VecSave(data) ==
    /\ ~aborted /\ backend = "vec" /\ Len(log) < MaxSaves
    /\ \E r \in {TrivialSave(vec, data)} :
           /\ vec' = r.store
           /\ log' = Append(log, Saved(elemType, data, r.id,
                        RepoGet(backend, r.store, hash, conn, elemType, r.id)))
           /\ last' = Call("save", elemType, data, None, TRUE, r.id)
    /\ UNCHANGED <<backend, elemType, hash, order, conn, aborted>>

VecGet(id) ==
    /\ ~aborted /\ backend = "vec"
    /\ last' = Call("get", elemType, id, None, TRUE, TrivialGet(vec, id))
    /\ UNCHANGED <<backend, elemType, vec, hash, order, conn, log, aborted>>

\* all() that moves the elements out instead of cloning them.
VecAllDraining ==
    /\ ~aborted /\ backend = "vec"
    /\ vec' = <<>>
    /\ last' = Call("all", elemType, <<>>, None, TRUE, TrivialAll(vec))
    /\ UNCHANGED <<backend, elemType, hash, order, conn, log, aborted>>

VecAll ==
    /\ ~aborted /\ backend = "vec"
    /\ last' = Call("all", elemType, <<>>, None, TRUE, TrivialAll(vec))
    /\ UNCHANGED <<backend, elemType, vec, hash, order, conn, log, aborted>>

\* ---------------------------------------------------------- HashRepository

HashSaveCall(data) ==
    /\ ~aborted /\ backend = "hash" /\ Len(log) < MaxSaves
    /\ \E id \in Uuids : \E r \in {HashSave(hash, id, data)} :
             /\ hash' = r.store
             /\ order' \in HashOrders(r.store)
             /\ log' = Append(log, Saved(elemType, data, r.id,
                          RepoGet(backend, vec, r.store, conn, elemType, r.id)))
             /\ last' = Call("save", elemType, data, None, TRUE, r.id)
    /\ UNCHANGED <<backend, elemType, vec, conn, aborted>>

HashGetCall(id) ==
    /\ ~aborted /\ backend = "hash"
    /\ last' = Call("get", elemType, id, None, TRUE, HashGet(hash, id))
    /\ UNCHANGED <<backend, elemType, vec, hash, order, conn, log, aborted>>

HashAllCall ==
    /\ ~aborted /\ backend = "hash"
    /\ last' = Call("all", elemType, <<>>, None, TRUE, HashAll(hash, order))
    /\ UNCHANGED <<backend, elemType, vec, hash, order, conn, log, aborted>>

\* ---------------------------------------------------------------- Rusqlite

\* setup returns a Result: an Err is handed to the caller, not a panic.
SqlSetup(T) ==
    /\ ~aborted /\ backend = "sql"
    /\ \E r \in {setup(conn, T)} :
           /\ conn' = r.conn
           /\ last' = Call("setup", T, <<>>, None, TRUE,
                           IF r.ok THEN "Ok" ELSE "Err")
    /\ UNCHANGED <<backend, elemType, vec, hash, order, log, aborted>>

SqlSave(T, data) ==
    /\ ~aborted /\ backend = "sql" /\ Len(log) < MaxSaves
    /\ \E r \in {SqlSaveOp(conn, T, data)} :
           /\ conn' = r.conn
           /\ aborted' = ~r.ok
           /\ log' = IF r.ok
                     THEN Append(log, Saved(T, data, r.id,
                             RepoGet(backend, vec, hash, r.conn, T, r.id)))
                     ELSE log
           /\ last' = Call("save", T, data, None, r.ok, IF r.ok THEN r.id ELSE 0)
    /\ UNCHANGED <<backend, elemType, vec, hash, order>>

SqlGet(T, id) ==
    /\ ~aborted /\ backend = "sql"
    /\ \E r \in {SqlGetOp(conn, T, id)} :
           /\ aborted' = ~r.ok
           /\ last' = Call("get", T, id, None, r.ok, r.val)
    /\ UNCHANGED <<backend, elemType, vec, hash, order, conn, log>>

SqlAll(T) ==
    /\ ~aborted /\ backend = "sql"
    /\ \E r \in {get_all(conn, T)} :
           /\ aborted' = ~r.ok
           /\ last' = Call("all", T, <<>>, None, r.ok, r.val)
    /\ UNCHANGED <<backend, elemType, vec, hash, order, conn, log>>

SqlFind(credentials, limit) ==
    /\ ~aborted /\ backend = "sql"
    /\ \E r \in {find(conn, credentials, limit)} :
           /\ aborted' = ~r.ok
           /\ last' = Call("find", "User", credentials, limit, r.ok, r.val)
    /\ UNCHANGED <<backend, elemType, vec, hash, order, conn, log>>

\* ---------------------------------------------------------------- usecases

\* find_all_done_via_id with unwrap_or_default in place of expect.
FindAllDoneViaIdOrEmpty(id) ==
    /\ ~aborted
    /\ backend = "sql" \/ elemType = "User"
    /\ \E user \in {RepoGet(backend, vec, hash, conn, "User", id)} :
         /\ aborted' = ~user.ok
         /\ last' = Call("find_all_done_via_id", "User", id, None, user.ok,
                         IF user.ok /\ user.val # None
                         THEN find_all_done(user.val[1]) ELSE <<>>)
    /\ UNCHANGED <<backend, elemType, vec, hash, order, conn, log>>

\* find_all_done_via_id over any Repository<User>:
\* repo.get(&id).expect("No such user!"), then find_all_done.
FindAllDoneViaId(id) ==
    /\ ~aborted
    /\ backend = "sql" \/ elemType = "User"
    /\ \E user \in {RepoGet(backend, vec, hash, conn, "User", id)} :
         LET found == user.ok /\ user.val # None
         IN  /\ aborted' = ~found
             /\ last' = Call("find_all_done_via_id", "User", id, None, found,
                             IF found THEN find_all_done(user.val[1]) ELSE <<>>)
    /\ UNCHANGED <<backend, elemType, vec, hash, order, conn, log>>

\* The calls on a TrivialRepository.
NextVec ==
    \/ \E data \in Values("vec", elemType) : VecSave(data)
    \/ \E id \in Ids("vec", elemType) : VecGet(id)
    \/ VecAll
    \/ backend = "vec" /\ \E id \in Ids("vec", "User") : FindAllDoneViaId(id)

\* The calls on a HashRepository.
NextHash ==
    \/ \E data \in Values("hash", elemType) : HashSaveCall(data)
    \/ \E id \in Ids("hash", elemType) : HashGetCall(id)
    \/ HashAllCall
    \/ backend = "hash" /\ \E id \in Ids("hash", "User") : FindAllDoneViaId(id)

\* The calls on a Rusqlite.
NextSql ==
    \/ \E T \in {"User", "Task"} : SqlSetup(T)
    \/ \E T \in {"User", "Task"} : \E data \in Values("sql", T) : SqlSave(T, data)
    \/ \E T \in {"User", "Task"} : \E id \in Ids("sql", T) : SqlGet(T, id)
    \/ \E T \in {"User", "Task"} : SqlAll(T)
    \/ \E credentials \in CredLists : \E limit \in Limits : SqlFind(credentials, limit)
    \/ backend = "sql" /\ \E id \in Ids("sql", "User") : FindAllDoneViaId(id)

Next == NextVec \/ NextHash \/ NextSql

\* One store instance of any of the three backends.
Spec == Init /\ [][Next]_vars

InitVec == Init /\ backend = "vec"

InitHash == Init /\ backend = "hash"

InitMem == Init /\ backend # "sql"

InitSql == Init /\ backend = "sql"

NextMem == NextVec \/ NextHash

\* One TrivialRepository.
SpecVec == InitVec /\ [][NextVec]_vars

\* One HashRepository.
SpecHash == InitHash /\ [][NextHash]_vars

\* One in-memory store, of either kind.
SpecMem == InitMem /\ [][NextMem]_vars

\* One Rusqlite.
SpecSql == InitSql /\ [][NextSql]_vars

\* ------------------------------------------- the query builder on its own

\* The length of the parameter lists handed to the query builder.
MaxParams == 3

\* The credential lists build_query turns into parameter lists.
QueryCreds == SeqsUpTo({NameTerm(n) : n \in Names}, MaxParams)

\* The statement and the bound values of one call of Rusqlite::query, before
\* the statement is prepared.
BuildQuery(T, parameters, limit) ==
    /\ ~aborted /\ backend = "sql"
    /\ last' = Call("query", T, parameters, limit, TRUE,
                    BuildSql(T, parameters, limit))
    /\ UNCHANGED <<backend, elemType, vec, hash, order, conn, log, aborted>>

\* The parameter lists of find (through build_query) and of get / from_row.
NextQuery ==
    \/ \E T \in {"User", "Task"} : \E limit \in Limits :
          \E credentials \in QueryCreds : BuildQuery(T, build_query(credentials), limit)
    \/ \E T \in {"User", "Task"} : \E limit \in Limits :
          \E id \in Ids("sql", T) : BuildQuery(T, <<QueryValue("id", id)>>, limit)

\* The statements Rusqlite::query builds.
SpecQuery == InitSql /\ [][NextQuery]_vars

\* --------------------------------------------- tasks with tags of any text

\* The length of a tag text.
MaxTagLen == 1

\* The number of tags of a Task.
MaxTags == 2

\* The tag texts: a letter and the separator, the empty text included.
TagTexts == SeqsUpTo({"x", ","}, MaxTagLen)

\* The tasks with a tag collection over TagTexts.
TaggedTasks == {Task("Tag", ts, None, FALSE) : ts \in SeqsUpTo(TagTexts, MaxTags)}

\* The calls on a Rusqlite that holds tasks only.
NextTags ==
    \/ SqlSetup("Task")
    \/ \E data \in TaggedTasks : SqlSave("Task", data)
    \/ \E id \in Ids("sql", "Task") : SqlGet("Task", id)

\* One Rusqlite whose tasks carry tags of any text.
SpecTags == InitSql /\ [][NextTags]_vars

\* ------------------------------------------------------------ properties

\* The save calls of values of type T that returned, in call order.
SavesOf(T) == SelectSeq(log, LAMBDA e : e.T = T)

\* The values of the entries of a piece of log, in order.
DataOf(es) == [k \in 1..Len(es) |-> es[k].data]

\* Repository::get of the store as it is now.
GetNow(T, id) == RepoGet(backend, vec, hash, conn, T, id)

\* Both tables of a relational store have been set up (true of the others).
Ready == backend = "sql" => conn.created = {"users", "tasks"}

\* C1 (as claimed): right after a save of e returned identity i, get(i)
\* on that store is present and equal to e in every field.
C1_RoundTrip ==
    (Ready /\ last.op = "save" /\ last.ok)
        => /\ GetNow(last.T, last.ret).ok
           /\ GetNow(last.T, last.ret).val = Some(last.arg)

\* C2 (as claimed): the identities the save calls on one store instance
\* returned are pairwise distinct, whatever the entity types saved.
C2_IdentityUniqueness ==
    \A i, j \in 1..Len(log) : i # j => log[i].id # log[j].id

\* C3 (as claimed): get(i) of an identity a save returned gives, after any
\* later calls, what it gave right after that save.
C3_Permanence ==
    \A k \in 1..Len(log) :
        log[k].got.ok => GetNow(log[k].T, log[k].id) = log[k].got

\* The saved users whose name equals the value of every credential.
Matching(creds) ==
    SelectSeq(SavesOf("User"),
              LAMBDA e : \A i \in 1..Len(creds) : e.data.name = creds[i].value)

\* C4 (as claimed): every User that get, all or find of a relational store
\* returns carries exactly the tasks saved with that User, in order.
C4_OwnedCollection ==
    (backend = "sql" /\ last.T = "User" /\ last.ok)
        => /\ last.op = "get" =>
                \A k \in 1..Len(log) :
                    (log[k].T = "User" /\ log[k].id = last.arg)
                        => last.ret = Some(log[k].data)
           /\ last.op = "all" => last.ret = DataOf(SavesOf("User"))
           /\ (last.op = "find" /\ last.lim = None)
                => last.ret = DataOf(Matching(last.arg))

\* A record of type T is stored under identity id: a position of the
\* sequential store, a key of the hash store, the id of a row of T's table.
Stored(T, id) ==
    CASE backend = "vec"  -> id < Len(vec)
      [] backend = "hash" -> id \in DOMAIN hash
      [] OTHER -> \E i \in 1..Len(conn.rows[TableOf(T)]) :
                     conn.rows[TableOf(T)][i].id = id

\* No save on this store instance has returned identity id.
NeverReturned(id) == \A k \in 1..Len(log) : log[k].id # id

\* The step is a get that returns None, does not panic and leaves the
\* store as it was.
AbsentStep ==
    /\ last'.ok /\ ~aborted'
    /\ last'.ret = None
    /\ UNCHANGED store

\* C5 (as claimed): with the tables set up, get(i) of an identity no save
\* has returned gives None, without a panic and without a change of the
\* store.
C5_AbsentIfNeverReturned ==
    [][(Ready /\ last'.op = "get" /\ NeverReturned(last'.arg)) => AbsentStep]_vars

\* C5 (amended): get::<T>(i) of an identity under which no record of type
\* T is stored (on a relational store: T's table is set up and none of its
\* rows has id i) gives None, without a panic and without a change of the
\* store.
C5_AbsentIfNotStored ==
    [][(/\ last'.op = "get"
        /\ backend = "sql" => TableOf(last'.T) \in conn.created
        /\ ~Stored(last'.T, last'.arg)) => AbsentStep]_vars

\* C5 witness: a get of an identity that is not stored, on a store that
\* holds records, has returned None.
C5_Witness ==
    /\ last.op = "get" /\ last.ok /\ last.ret = None
    /\ Len(log) > 0
    /\ ~Stored(last.T, last.arg)

\* C6: find(credentials, None) on the relational store returns one record
\* per saved User whose name equals the value of every credential, in save
\* order, each the record get gives for the identity that save returned,
\* and nothing else.
C6_SearchSelection ==
    (backend = "sql" /\ last.op = "find" /\ last.ok /\ last.lim = None)
        => LET m == Matching(last.arg)
           IN  /\ Len(last.ret) = Len(m)
               /\ \A i \in 1..Len(m) :
                     /\ last.ret[i].name = m[i].data.name
                     /\ Some(last.ret[i]) = GetNow("User", m[i].id).val

\* C6 witness: users named A and C are saved and find([Name(C)], None) has
\* returned one record.
C6_Witness ==
    /\ backend = "sql" /\ last.op = "find" /\ last.ok /\ last.lim = None
    /\ last.arg = <<NameTerm("C")>>
    /\ Len(last.ret) = 1
    /\ {e.data.name : e \in Range(SavesOf("User"))} = {"A", "C"}

\* C7: find(credentials, Some(n)) on the relational store returns at most
\* n records, the first min(n, k) of the k records find(credentials, None)
\* returns in the same state.
C7_LimitCap ==
    (backend = "sql" /\ last.op = "find" /\ last.ok /\ last.lim # None)
        => LET n    == last.lim[1]
               full == find(conn, last.arg, None)
           IN  /\ Len(last.ret) <= n
               /\ full.ok => /\ Len(last.ret) = Min(n, Len(full.val))
                             /\ last.ret = SubSeq(full.val, 1, Len(last.ret))

\* C7 witness: a find with limit 1 has cut a result of two records.
C7_Witness ==
    /\ backend = "sql" /\ last.op = "find" /\ last.ok
    /\ last.lim = Some(1)
    /\ Len(last.ret) = 1
    /\ find(conn, last.arg, None).ok
    /\ Len(find(conn, last.arg, None).val) = 2

\* C8: on a TrivialRepository the k-th save (from 0) returns k, and all()
\* is the saved values in save order, duplicates kept.
C8_SequentialOrder ==
    backend = "vec"
        => /\ \A k \in 1..Len(log) : log[k].id = k - 1
           /\ last.op = "save" => last.ret = Len(log) - 1
           /\ last.op = "all" => last.ret = DataOf(log)
           /\ vec = DataOf(log)

\* C8 witness: the same value was saved twice, with identities 0 and 1,
\* and all() has returned two equal entries.
C8_Witness ==
    /\ backend = "vec" /\ last.op = "all"
    /\ Len(last.ret) = 2 /\ last.ret[1] = last.ret[2]
    /\ Len(log) = 2 /\ log[1].id = 0 /\ log[2].id = 1

\* C9 (as claimed): all::<T>() is the values passed to save::<T> on this
\* store instance, one per call, in save order (relational store).
C9_AllIsTheSaves ==
    (backend = "sql" /\ last.op = "all" /\ last.ok)
        => last.ret = DataOf(SavesOf(last.T))

\* The tasks of ts that are done, in order, by recursion on ts.
RECURSIVE DoneInOrder(_)
DoneInOrder(ts) ==
    IF ts = <<>> THEN <<>>
    ELSE (IF Head(ts).done THEN <<Head(ts)>> ELSE <<>>) \o DoneInOrder(Tail(ts))

\* The latest save that returned identity id (0 when there is none).
LatestSave(id) ==
    LET ks == {k \in 1..Len(log) : log[k].id = id}
    IN  IF ks = {} THEN 0 ELSE CHOOSE k \in ks : \A j \in ks : j <= k

\* C10: on an in-memory store, find_all_done_via_id(store, i) returns the
\* done tasks of the User u saved under i, in insertion order, which is
\* find_all_done(u).
C10_CompletedTasks ==
    (backend # "sql" /\ last.op = "find_all_done_via_id" /\ last.ok)
        => /\ LatestSave(last.arg) # 0
           /\ LET u == log[LatestSave(last.arg)].data
              IN  /\ last.ret = DoneInOrder(u.tasks)
                  /\ last.ret = find_all_done(u)

\* C10 witness: the use case has returned one task for a User saved with a
\* done and a not done task.
C10_Witness ==
    /\ backend # "sql" /\ last.op = "find_all_done_via_id" /\ last.ok
    /\ LatestSave(last.arg) # 0
    /\ Len(log[LatestSave(last.arg)].data.tasks) = 2
    /\ Len(last.ret) = 1

\* C11: on the relational store, in a state where all() returns, find([],
\* None) returns the same records in the same order and find([], Some(n))
\* the first min(n, length) of them; find([], None) panics exactly when
\* all() does.
C11_EmptySearchIsAll ==
    (backend = "sql" /\ last.op = "find" /\ last.arg = <<>>)
        => LET all == get_all(conn, "User")
           IN  /\ last.lim = None => last.ok = all.ok
               /\ all.ok => last.ok
               /\ (all.ok /\ last.lim = None) => last.ret = all.val
               /\ (all.ok /\ last.lim # None)
                    => last.ret = SubSeq(all.val, 1, Min(last.lim[1], Len(all.val)))

\* C11 witness: find([], Some(1)) has returned the first of the two records
\* all() returns.
C11_Witness ==
    /\ backend = "sql" /\ last.op = "find" /\ last.ok
    /\ last.arg = <<>> /\ last.lim = Some(1)
    /\ Len(get_all(conn, "User").val) = 2
    /\ last.ret = <<get_all(conn, "User").val[1]>>

\* C12: setup::<T> on a Rusqlite whose table for T exists returns an Err,
\* does not panic, and leaves the tables and their rows as they were.
C12_RepeatedSetupFails ==
    [][(last'.op = "setup" /\ TableOf(last'.T) \in conn.created)
         => /\ last'.ret = "Err"
            /\ ~aborted'
            /\ conn'.rows = conn.rows
            /\ conn'.created = conn.created]_vars

\* C12 witness: a second setup of a table that holds rows has returned Err.
C12_Witness ==
    /\ backend = "sql" /\ last.op = "setup" /\ last.ret = "Err"
    /\ conn.rows[TableOf(last.T)] # <<>>

\* C13: the statement Rusqlite::query builds for k parameters and an
\* optional limit starts with the select of the type, has a WHERE exactly
\* when k > 0, has k equality clauses on the fields of the parameters in
\* list order with an AND between each two and none trailing, binds the k
\* values of the parameters in list order, and ends with LIMIT n exactly
\* when the limit is Some(n).
C13_QueryShape ==
    last.op = "query"
        => LET k      == Len(last.arg)
               sql    == last.ret.sql
               params == last.ret.params
               n      == Len(sql)
               pos(kind) == {i \in 1..n : sql[i].k = kind}
               eqs    == SelectSeq(sql, LAMBDA t : t.k = "EQ")
           IN  /\ sql[1] = select(last.T)
               /\ pos("SELECT") = {1}
               /\ (pos("WHERE") # {}) <=> (k > 0)
               /\ pos("WHERE") \subseteq {2}
               /\ Len(eqs) = k
               /\ \A i \in 1..k : eqs[i].f = last.arg[i].field
               /\ Cardinality(pos("AND")) = (IF k > 0 THEN k - 1 ELSE 0)
               /\ \A i \in pos("AND") :
                     /\ 1 < i /\ i < n
                     /\ sql[i - 1].k = "EQ" /\ sql[i + 1].k = "EQ"
               /\ Len(params) = k
               /\ \A i \in 1..k : params[i] = last.arg[i].value
               /\ (last.lim # None) <=> (sql[n].k = "LIMIT")
               /\ last.lim # None => sql[n].n = last.lim[1]
               /\ pos("LIMIT") \subseteq {n}

\* C13 witness: a statement was built for two parameters and a limit.
C13_Witness ==
    /\ last.op = "query"
    /\ Len(last.arg) = 2 /\ last.lim = Some(1)
    /\ Len(last.ret.sql) = 6

\* The tags column of the tasks row with the given id (None is NULL).
TagsColumn(id) ==
    LET rs == SelectSeq(conn.rows.tasks, LAMBDA r : r.id = id)
    IN  rs[1].tags

\* C14 (as claimed): for every Task saved to the relational store the tags
\* read back equal the tags saved, element for element and in order; an
\* empty collection is stored as NULL, a non-empty one as text.
C14_TagsRoundTrip ==
    \A k \in 1..Len(log) :
        (log[k].T = "Task" /\ log[k].got.ok)
            => /\ log[k].got.val # None
               /\ log[k].got.val[1].tags = log[k].data.tags
               /\ (log[k].data.tags = <<>>) <=> (TagsColumn(log[k].id) = None)

\* C15 (as claimed): a save of a HashRepository never replaces a stored
\* record: the number of stored records equals the number of saves that
\* completed, and every identity a save returned still gives the record
\* that save stored.
C15_NoOverwrite ==
    backend = "hash"
        => /\ Cardinality(DOMAIN hash) = Len(log)
           /\ \A k \in 1..Len(log) : HashGet(hash, log[k].id) = Some(log[k].data)

\* The calls that read: all, get, find and the use case over get.
ReadOps == {"all", "get", "find", "find_all_done_via_id"}

\* The step repeats the call before it: same operation, type and arguments.
SameCall ==
    /\ last'.op = last.op /\ last'.T = last.T
    /\ last'.arg = last.arg /\ last'.lim = last.lim

\* The identity the next save of each value would return is the same after
\* the step as before it (sequential and relational stores).
SameNextIdentity ==
    /\ backend = "vec" =>
          \A d \in Values("vec", elemType) :
              TrivialSave(vec', d).id = TrivialSave(vec, d).id
    /\ backend = "sql" =>
          \A T \in {"User", "Task"} : \A d \in Values("sql", T) :
              /\ SqlSaveOp(conn', T, d).ok = SqlSaveOp(conn, T, d).ok
              /\ SqlSaveOp(conn', T, d).id = SqlSaveOp(conn, T, d).id

\* C16: on every backend a read that returns (all, get, find, or
\* find_all_done_via_id of an identity that exists) leaves the contents of
\* the store unchanged; a read that repeats the read before it returns the
\* same result; and the next save returns the identity it would have
\* returned without the read.
C16_ReadsArePure ==
    [][(last'.op \in ReadOps /\ last'.ok)
         => /\ UNCHANGED store
            /\ (last.ok /\ SameCall) => last'.ret = last.ret
            /\ SameNextIdentity]_vars

\* C16 witness: all() of a HashRepository that holds two different records
\* has returned them, in the order the map visits its keys.
C16_Witness ==
    /\ backend = "hash" /\ last.op = "all" /\ last.ok
    /\ Len(last.ret) = 2 /\ last.ret[1] # last.ret[2]
    /\ last.ret = HashAll(hash, order)

\* The ids of the rows of a table.
RowIds(rows) == {rows[i].id : i \in 1..Len(rows)}

C18_MissingOwnerAborts ==
    [][last'.op = "find_all_done_via_id"
         => LET user == GetNow("User", last'.arg)
            IN  /\ (user.ok /\ user.val = None)
                      => /\ ~last'.ok /\ aborted'
                         /\ UNCHANGED store
                /\ last'.ok
                      => /\ user.ok /\ user.val # None
                         /\ last'.ret = find_all_done(user.val[1])]_vars

\* C18 witness: on a store that holds a record the use case has panicked on
\* an identity that get reports absent.
C18_Witness ==
    /\ last.op = "find_all_done_via_id" /\ ~last.ok /\ aborted
    /\ Len(log) > 0
    /\ GetNow("User", last.arg) = [ok |-> TRUE, val |-> None]

====
